---- MODULE Spec2Model ----
(***************************************************************************)
(* Routing / graph-damage core of algoritmalar_proje:                      *)
(*   core/algorithms.py   get_best_edge_weight, heuristic, dijkstra_search,*)
(*                        astar_search, _reconstruct_path                  *)
(*   core/data_manager.py apply_damage_area, block_area, reset_graph_*,    *)
(*                        simulate_scattered_damage, get_nearest_node,     *)
(*                        get_nearest_edge_point                           *)
(*   ui/analysis_window.py the Dijkstra-then-A* comparison on one query    *)
(*                                                                         *)
(* Numbers.  Costs are whole metres.  float('inf') is the value Inf, which *)
(* no finite sum of the model reaches; a missing dictionary key is None.   *)
(* Node coordinates are whole millidegrees close to (0, 0), where one      *)
(* millidegree of latitude or longitude is about 111 m.                    *)
(***************************************************************************)
EXTENDS Integers, Sequences, FiniteSets, TLC

\* ------------------------------------------------------------------ bounds
NumNodes == 4

\* --------------------------------------------------------------- constants
Inf == 2000000000
None == -1
DefaultWeight == 1
HeuristicScale == 111000
DefaultRadius == 50
R == 6371000
DefaultMaxDistance == 100
MinScatterRadius == 15
MaxScatterRadius == 20

Nodes == 1..NumNodes

VARIABLES
    nodes,          \* graph.nodes: node id -> [x, y], millidegrees    (immutable)
    edges,          \* graph.edges: <<u, v, key>> -> attribute record
    calls,          \* history: the last data_manager call, or a damage call and
                    \*   the reset_graph_state that followed it
    before,         \* history: the edge attributes before the damage call of calls
    blocked_edges,  \* history: what the damage call of calls returned
    io,             \* history: the arguments of the data_manager call of calls,
                    \*   and what a resolver or scatter call returned
    pc,             \* "idle", "dijkstra", "astar", "done"
    start, end, ignore_damage,      \* arguments of the running query
    queue, distances, g_score, parents, visited, visited_count, success,
    dres, ares,     \* what dijkstra_search / astar_search returned
    damage_active,  \* OperationWindow.damage_active
    start_node, end_node,           \* OperationWindow.start_node / end_node
    start_input, end_input,         \* the two text fields, parsed: <<lat, lon>>
                                    \*   or <<>> when empty or not a point
    cleared,        \* history: the edges that were blocked when "clear damages"
                    \*   ran and that no damage call has blocked since
    loaded          \* history: the edge attributes as the graph was loaded

vars == <<nodes, edges, calls, before, blocked_edges, io, pc, start, end,
          ignore_damage, queue, distances, g_score, parents, visited,
          visited_count, success, dres, ares, damage_active, start_node,
          end_node, start_input, end_input, cleared, loaded>>

uiVars == <<damage_active, start_node, end_node, start_input, end_input,
            cleared, loaded>>

graphVars == <<nodes, edges, calls, before, blocked_edges, io>>
searchVars == <<pc, start, end, ignore_damage, queue, distances, g_score,
                parents, visited, visited_count, success, dres, ares>>

\* ------------------------------------------------------------- arithmetic
IsInf(w) == w = Inf
Plus(a, b) == IF IsInf(a) \/ IsInf(b) THEN Inf ELSE a + b

RECURSIVE ISqrtIn(_, _, _)
ISqrtIn(n, lo, hi) ==
    IF lo >= hi THEN lo
    ELSE LET mid == (lo + hi + 1) \div 2
         IN  IF mid * mid <= n THEN ISqrtIn(n, mid, hi)
                               ELSE ISqrtIn(n, lo, mid - 1)
\* floor of the square root
ISqrt(n) == ISqrtIn(n, 0, 2000)

\* math.hypot on whole coordinates, in hundredths
Hypot100(dx, dy) == ISqrt((dx * dx + dy * dy) * 10000)

\* ------------------------------------------------------------ geo helpers
\* _haversine for coordinates in millidegrees near (0, 0): there
\* cos(lat) = 1 and R * c is R times the planar angle (pi taken as 22/7),
\* about 111 m for each millidegree.
Haversine(lat1, lon1, lat2, lon2) ==
    (Hypot100(lat2 - lat1, lon2 - lon1) * (R \div 1000) * 22) \div 126000

Min2(a, b) == IF a <= b THEN a ELSE b
Max2(a, b) == IF a >= b THEN a ELSE b
Clamp(v, lo, hi) == Max2(lo, Min2(v, hi))

\* nearest point of the segment a-b to p; points are <<x, y>> = <<lon, lat>>.
\* Road geometries of the model are axis-parallel, so the projection is a clamp.
NearestOnSegment(p, a, b) ==
    IF a[2] = b[2]
    THEN <<Clamp(p[1], Min2(a[1], b[1]), Max2(a[1], b[1])), a[2]>>
    ELSE <<a[1], Clamp(p[2], Min2(a[2], b[2]), Max2(a[2], b[2]))>>

Dist2(p, q) == (p[1] - q[1]) * (p[1] - q[1]) + (p[2] - q[2]) * (p[2] - q[2])

\* shapely.ops.nearest_points(pt, geom)[1]
NearestPoint(p, geom) ==
    LET cands == {NearestOnSegment(p, geom[i], geom[i + 1]) : i \in 1..(Len(geom) - 1)}
    IN  CHOOSE c \in cands : \A d \in cands : Dist2(p, c) <= Dist2(p, d)

\* ---------------------------------------------------------- graph access
\* graph.get_edge_data(u, v): the parallel edges of the pair, key -> data
GetEdgeData(E, u, v) == {e \in DOMAIN E : e[1] = u /\ e[2] = v}

\* G.neighbors(u)
Neighbors(E, u) == {e[2] : e \in {f \in DOMAIN E : f[1] = u}}

\* a set of edge keys in iteration order (the order of a dict or edge view)
RECURSIVE SeqOf(_)
SeqOf(S) ==
    IF S = {} THEN <<>>
    ELSE LET m == CHOOSE e \in S : \A f \in S :
                     \/ e[1] < f[1]
                     \/ e[1] = f[1] /\ e[2] < f[2]
                     \/ e[1] = f[1] /\ e[2] = f[2] /\ e[3] <= f[3]
         IN  <<m>> \o SeqOf(S \ {m})

\* ------------------------------------------------- core/algorithms.py:9-39
\* faulty variant: the length is read before the weight override
EdgeCost_LengthFirst(data) ==
    IF data.length # None THEN data.length
    ELSE IF data.weight # None THEN data.weight
    ELSE DefaultWeight

\* float(data.get("weight", data.get("length", 1.0)))
EdgeCost(data) ==
    IF data.weight # None THEN data.weight
    ELSE IF data.length # None THEN data.length
    ELSE DefaultWeight

\* faulty variant: in ignore-damage mode the loop reads the length, not the weight
RECURSIVE BestWeightLoop_IgnoreReadsLength(_, _, _, _)
BestWeightLoop_IgnoreReadsLength(E, ks, ignore, st) ==
    IF ks = <<>> THEN st
    ELSE LET data == E[Head(ks)]
             w == IF ignore /\ data.length # None THEN data.length ELSE EdgeCost(data)
         IN  IF ~ignore /\ data.blocked
             THEN BestWeightLoop_IgnoreReadsLength(E, Tail(ks), ignore, st)
             ELSE IF w < st[1]
                  THEN BestWeightLoop_IgnoreReadsLength(E, Tail(ks), ignore, <<w, TRUE>>)
                  ELSE BestWeightLoop_IgnoreReadsLength(E, Tail(ks), ignore, st)

\* the for loop of get_best_edge_weight; st = <<best_weight, found_passable>>
RECURSIVE BestWeightLoop(_, _, _, _)
BestWeightLoop(E, ks, ignore, st) ==
    IF ks = <<>> THEN st
    ELSE LET data == E[Head(ks)]
             w == EdgeCost(data)
         IN  IF ~ignore /\ data.blocked
             THEN BestWeightLoop(E, Tail(ks), ignore, st)
             ELSE IF w < st[1]
                  THEN BestWeightLoop(E, Tail(ks), ignore, <<w, TRUE>>)
                  ELSE BestWeightLoop(E, Tail(ks), ignore, st)

get_best_edge_weight(E, u, v, ignore) ==
    LET edge_data == GetEdgeData(E, u, v)
    IN  IF edge_data = {} THEN Inf
        ELSE LET st == BestWeightLoop(E, SeqOf(edge_data), ignore, <<Inf, FALSE>>)
             IN  IF ~st[2] THEN Inf ELSE st[1]

\* ----------------------------------------------- core/algorithms.py:41-55
node_xy(N, n) == <<N[n].x, N[n].y>>

\* math.hypot(ux - vx, uy - vy) * 111000 with the coordinates in degrees;
\* the model's coordinates are millidegrees and Hypot100 is in hundredths.
heuristic(N, u, v) ==
    (Hypot100(node_xy(N, u)[1] - node_xy(N, v)[1],
              node_xy(N, u)[2] - node_xy(N, v)[2]) * HeuristicScale) \div 100000

\* ------------------------------------------ core/data_manager.py:196-250
\* faulty variant: the geometry is not looked at, the distance is always the one
\* to the midpoint of the endpoints
EdgeDistance_NoGeometry(N, E, e, lat, lon) ==
    Haversine(lat, lon, (N[e[1]].y + N[e[2]].y) \div 2,
                        (N[e[1]].x + N[e[2]].x) \div 2)

\* distance from the centre to one edge: to its geometry when it has one,
\* else to the midpoint of its endpoints
EdgeDistance(N, E, e, lat, lon) ==
    IF E[e].geometry # <<>>
    THEN LET nearest_on == NearestPoint(<<lon, lat>>, E[e].geometry)
         IN  Haversine(lat, lon, nearest_on[2], nearest_on[1])
    ELSE Haversine(lat, lon, (N[e[1]].y + N[e[2]].y) \div 2,
                             (N[e[1]].x + N[e[2]].x) \div 2)

\* faulty variant: orig_length is taken from the cost the edge had (weight, else
\* length), not from its length
RECURSIVE MarkLoop_OrigFromCost(_, _)
MarkLoop_OrigFromCost(ks, st) ==
    IF ks = <<>> THEN st
    ELSE LET k == Head(ks)
             edata == st.E[k]
             d1 == IF edata.orig_length = None /\ edata.length # None
                   THEN [edata EXCEPT !.orig_length = EdgeCost(edata)]
                   ELSE edata
             d2 == [d1 EXCEPT !.blocked = TRUE, !.weight = Inf]
         IN  MarkLoop_OrigFromCost(Tail(ks), [E |-> [st.E EXCEPT ![k] = d2],
                                   blocked_edges |-> st.blocked_edges \cup {k}])

\* faulty variant: only the edges the call newly blocks are returned
RECURSIVE MarkLoop_ReturnsNewOnly(_, _)
MarkLoop_ReturnsNewOnly(ks, st) ==
    IF ks = <<>> THEN st
    ELSE LET k == Head(ks)
             edata == st.E[k]
             d1 == IF edata.orig_length = None /\ edata.length # None
                   THEN [edata EXCEPT !.orig_length = edata.length]
                   ELSE edata
             d2 == [d1 EXCEPT !.blocked = TRUE, !.weight = Inf]
         IN  MarkLoop_ReturnsNewOnly(Tail(ks),
                 [E |-> [st.E EXCEPT ![k] = d2],
                  blocked_edges |-> IF edata.blocked THEN st.blocked_edges
                                    ELSE st.blocked_edges \cup {k}])

\* mark_block(u, v): st = [E, blocked_edges]
RECURSIVE MarkLoop(_, _)
MarkLoop(ks, st) ==
    IF ks = <<>> THEN st
    ELSE LET k == Head(ks)
             edata == st.E[k]
             d1 == IF edata.orig_length = None /\ edata.length # None
                   THEN [edata EXCEPT !.orig_length = edata.length]
                   ELSE edata
             d2 == [d1 EXCEPT !.blocked = TRUE, !.weight = Inf]
         IN  MarkLoop(Tail(ks), [E |-> [st.E EXCEPT ![k] = d2],
                                 blocked_edges |-> st.blocked_edges \cup {k}])

\* faulty variant: every edge that leaves u is marked, whatever its target
mark_block_AllFromU(st, u, v) ==
    MarkLoop(SeqOf({e \in DOMAIN st.E : e[1] = u}), st)

mark_block(st, u, v) == MarkLoop(SeqOf(GetEdgeData(st.E, u, v)), st)

\* faulty variant: only the direction of the edge within the radius is marked
RECURSIVE DamageLoop_NoReverse(_, _, _, _, _, _)
DamageLoop_NoReverse(N, es, lat, lon, radius_m, st) ==
    IF es = <<>> THEN st
    ELSE LET e == Head(es)
             dist == EdgeDistance(N, st.E, e, lat, lon)
         IN  IF dist <= radius_m
             THEN DamageLoop_NoReverse(N, Tail(es), lat, lon, radius_m,
                                       mark_block(st, e[1], e[2]))
             ELSE DamageLoop_NoReverse(N, Tail(es), lat, lon, radius_m, st)

\* the loop over list(graph.edges(keys=True, data=True))
RECURSIVE DamageLoop(_, _, _, _, _, _)
DamageLoop(N, es, lat, lon, radius_m, st) ==
    IF es = <<>> THEN st
    ELSE LET e == Head(es)
             dist == EdgeDistance(N, st.E, e, lat, lon)
         IN  IF dist <= radius_m
             THEN DamageLoop(N, Tail(es), lat, lon, radius_m,
                             mark_block(mark_block(st, e[1], e[2]), e[2], e[1]))
             ELSE DamageLoop(N, Tail(es), lat, lon, radius_m, st)

apply_damage_area(N, E, lat, lon, radius_m) ==
    DamageLoop(N, SeqOf(DOMAIN E), lat, lon, radius_m,
               [E |-> E, blocked_edges |-> {}])

\* ------------------------------------------ core/data_manager.py:140-193
block_area(N, E, lat, lon, radius_m) ==
    DamageLoop(N, SeqOf(DOMAIN E), lat, lon, radius_m,
               [E |-> E, blocked_edges |-> {}])

\* ------------------------------------------ core/data_manager.py:312-352
Abs(a) == IF a < 0 THEN -a ELSE a
Sign(a) == IF a < 0 THEN -1 ELSE IF a > 0 THEN 1 ELSE 0

\* the length of an axis-parallel segment, and of a polyline
SegLen(a, b) == Abs(b[1] - a[1]) + Abs(b[2] - a[2])

RECURSIVE LineLength(_)
LineLength(geom) ==
    IF Len(geom) <= 1 THEN 0
    ELSE SegLen(geom[1], geom[2]) + LineLength(Tail(geom))

\* geom.interpolate(d): the point d along the polyline
RECURSIVE Interpolate(_, _)
Interpolate(geom, d) ==
    IF Len(geom) = 1 THEN geom[1]
    ELSE LET a == geom[1]
             b == geom[2]
         IN  IF d <= SegLen(a, b)
             THEN <<a[1] + Sign(b[1] - a[1]) * d, a[2] + Sign(b[2] - a[2]) * d>>
             ELSE Interpolate(Tail(geom), d - SegLen(a, b))

\* <<lat, lon>> of the damage centre of a chosen edge: the midpoint along its
\* geometry, else the midpoint of its endpoints (the lines of the model have
\* even length, so halving is exact)
EdgeMidpoint(N, E, e) ==
    IF E[e].geometry # <<>>
    THEN LET mid_pt == Interpolate(E[e].geometry, LineLength(E[e].geometry) \div 2)
         IN  <<mid_pt[2], mid_pt[1]>>
    ELSE <<(N[e[1]].y + N[e[2]].y) \div 2, (N[e[1]].x + N[e[2]].x) \div 2>>

\* random.sample(all_edges, k): the lists of k different edges
RECURSIVE Samples(_, _)
Samples(S, k) ==
    IF k = 0 THEN {<<>>}
    ELSE UNION {{<<e>> \o t : t \in Samples(S \ {e}, k - 1)} : e \in S}

\* random.uniform(15.0, 20.0): the two ends of the range stand for it
ScatterRadii == {MinScatterRadius, MaxScatterRadius}

\* the for loop over chosen; st = [E, results, chosen]
RECURSIVE ScatterLoop(_, _, _, _)
ScatterLoop(N, chosen, radii, st) ==
    IF chosen = <<>> THEN st
    ELSE LET c == EdgeMidpoint(N, st.E, Head(chosen))
             radius == Head(radii)
             b == block_area(N, st.E, c[1], c[2], radius)
         IN  ScatterLoop(N, Tail(chosen), Tail(radii),
                         [st EXCEPT !.E = b.E,
                                    !.results = Append(st.results,
                                        <<c[1], c[2], radius, b.blocked_edges>>)])

\* Every outcome one call can have: the function takes no seed and draws from
\* the random module's global state, so the sample and the radii are not a
\* function of its arguments.  chosen is kept beside the returned results.
simulate_scattered_damage(N, E, count) ==
    IF DOMAIN E = {} THEN {[E |-> E, results |-> <<>>, chosen |-> <<>>]}
    ELSE LET pick_count == Min2(count, Cardinality(DOMAIN E))
         IN  {ScatterLoop(N, chosen, radii,
                          [E |-> E, results |-> <<>>, chosen |-> chosen])
                 : chosen \in Samples(DOMAIN E, pick_count),
                   radii \in [1..pick_count -> ScatterRadii]}

\* ------------------------------------------ core/data_manager.py:253-271
\* faulty variant: the blocked flag is cleared and the length restored, the weight
\* is left as it is
reset_graph_damage_KeepsWeight(E) ==
    [e \in DOMAIN E |->
        LET data == [E[e] EXCEPT !.blocked = FALSE]
            base_len == IF data.orig_length # None THEN data.orig_length
                        ELSE data.length
        IN  IF base_len # None
            THEN [data EXCEPT !.length = base_len]
            ELSE data]

reset_graph_damage(E) ==
    [e \in DOMAIN E |->
        LET data == [E[e] EXCEPT !.blocked = FALSE]
            base_len == IF data.orig_length # None THEN data.orig_length
                        ELSE data.length
        IN  IF base_len # None
            THEN [data EXCEPT !.length = base_len, !.weight = base_len]
            ELSE [data EXCEPT !.weight = None]]

\* ------------------------------------------ core/data_manager.py:274-283
reset_graph_weights(E) ==
    [e \in DOMAIN E |->
        LET data == [E[e] EXCEPT !.blocked = FALSE]
        IN  IF data.orig_length # None
            THEN [data EXCEPT !.length = data.orig_length]
            ELSE data]

\* ------------------------------------------ core/data_manager.py:286-309
\* faulty variant: the length is restored from orig_length, the weight is left as
\* it is
reset_graph_state_KeepsWeight(E) ==
    [e \in DOMAIN E |->
        LET data == [E[e] EXCEPT !.blocked = FALSE]
        IN  IF data.orig_length # None
            THEN [data EXCEPT !.length = data.orig_length]
            ELSE data]

\* faulty variant: orig_length is consumed by the reset that uses it, and an edge
\* without orig_length loses its weight
reset_graph_state_PopsOrigLength(E) ==
    [e \in DOMAIN E |->
        LET data == [E[e] EXCEPT !.blocked = FALSE]
        IN  IF data.orig_length # None
            THEN [data EXCEPT !.length = data.orig_length,
                              !.weight = data.orig_length,
                              !.orig_length = None]
            ELSE [data EXCEPT !.weight = None]]

reset_graph_state(E) ==
    [e \in DOMAIN E |->
        LET data == [E[e] EXCEPT !.blocked = FALSE]
            base_len == IF data.orig_length # None THEN data.orig_length
                        ELSE IF data.length # None THEN data.length
                        ELSE None
        IN  IF base_len # None
            THEN [data EXCEPT !.length = base_len, !.weight = base_len]
            ELSE [data EXCEPT !.weight = None]]

\* -------------------------------------------- core/data_manager.py:58-86
\* node_id as ox.distance.nearest_nodes or, when that fails, the scan of
\* _nearest_node_haversine finds it: a node of minimal distance to the point;
\* among nodes at the same distance the spatial index and the scan need not
\* agree, so any of them can come out
NearestNodes(N, lat, lon) ==
    {n \in DOMAIN N : \A m \in DOMAIN N :
        Haversine(lat, lon, N[n].y, N[n].x) <= Haversine(lat, lon, N[m].y, N[m].x)}

\* faulty variant: a node exactly max_distance_m away is rejected
get_nearest_node_RejectsAtLimit(N, node_id, lat, lon, max_distance_m) ==
    LET distance_m == Haversine(lat, lon, N[node_id].y, N[node_id].x)
    IN  IF distance_m >= max_distance_m
        THEN [raised |-> "ValueError", node_id |-> None]
        ELSE [raised |-> "", node_id |-> node_id]

\* the lines after node_id is found (every node of the model has x and y)
get_nearest_node(N, node_id, lat, lon, max_distance_m) ==
    LET distance_m == Haversine(lat, lon, N[node_id].y, N[node_id].x)
    IN  IF distance_m > max_distance_m
        THEN [raised |-> "ValueError", node_id |-> None]
        ELSE [raised |-> "", node_id |-> node_id]

\* ------------------------------------------- core/data_manager.py:89-137
\* the edge's geometry, or the straight line between its endpoints
EdgeLine(N, E, e) ==
    IF E[e].geometry # <<>> THEN E[e].geometry
    ELSE <<node_xy(N, e[1]), node_xy(N, e[2])>>

\* (u, v, key) as ox.nearest_edges finds it: an edge whose line is nearest to
\* the point; any of the edges at the same distance can come out
NearestEdges(N, E, lat, lon) ==
    LET d(e) == Dist2(<<lon, lat>>, NearestPoint(<<lon, lat>>, EdgeLine(N, E, e)))
    IN  {e \in DOMAIN E : \A f \in DOMAIN E : d(e) <= d(f)}

\* faulty variant: u is taken only when it is strictly closer
get_nearest_edge_point_TieToV(N, E, e, lat, lon) ==
    LET nearest_on_edge == NearestPoint(<<lon, lat>>, EdgeLine(N, E, e))
        proj_lon == nearest_on_edge[1]
        proj_lat == nearest_on_edge[2]
        du == Haversine(proj_lat, proj_lon, N[e[1]].y, N[e[1]].x)
        dv == Haversine(proj_lat, proj_lon, N[e[2]].y, N[e[2]].x)
    IN  [proj_lat |-> proj_lat, proj_lon |-> proj_lon,
         target_node |-> IF du < dv THEN e[1] ELSE e[2]]

\* the lines after the nearest edge e = (u, v, key) is found
get_nearest_edge_point(N, E, e, lat, lon) ==
    LET nearest_on_edge == NearestPoint(<<lon, lat>>, EdgeLine(N, E, e))
        proj_lon == nearest_on_edge[1]
        proj_lat == nearest_on_edge[2]
        du == Haversine(proj_lat, proj_lon, N[e[1]].y, N[e[1]].x)
        dv == Haversine(proj_lat, proj_lon, N[e[2]].y, N[e[2]].x)
    IN  [proj_lat |-> proj_lat, proj_lon |-> proj_lon,
         target_node |-> IF du <= dv THEN e[1] ELSE e[2]]

\* ------------------------------------------------------- the loaded graphs
\* an edge as the acquisition layer hands it over: never blocked, no
\* orig_length; length, weight and geometry are optional
Attr(len, w, geom) ==
    [length |-> len, weight |-> w, blocked |-> FALSE, orig_length |-> None,
     geometry |-> geom]

\* the nodes lie on a west-east line, 2 millidegrees apart
LineNodes == [n \in Nodes |-> [x |-> 2 * (n - 1), y |-> 0]]

\* a second, curved way from 1 to 2 (axis-parallel polyline, <<lon, lat>>)
Curve == <<<<0, 0>>, <<0, -2>>, <<2, -2>>, <<2, 0>>>>

\* One-way streets 3->4->2->1 with the shortcut 3->2, the way back 1->2 and
\* a curved parallel way 1->2.  short: the length of 3->4 and of 4->2;
\* back: the attributes of 1->2; curve: the attributes of the curved way.
Graph(short, back, curve) ==
    (<<3, 4, 0>> :> Attr(short, None, <<>>)) @@
    (<<4, 2, 0>> :> Attr(short, None, <<>>)) @@
    (<<3, 2, 0>> :> Attr(444, None, <<>>)) @@
    (<<2, 1, 0>> :> Attr(444, None, <<>>)) @@
    (<<1, 2, 0>> :> back) @@
    (<<1, 2, 1>> :> curve)

\* the graphs the acquisition layer can hand over: lengths in metres, an
\* edge with a weight override and no length, an edge with a weight override
\* below its length, an edge with neither length nor weight
\* a network of a single one-way street
Lane == (<<1, 2, 0>> :> Attr(444, None, <<>>))

LoadedGraphs ==
    {[nodes |-> LineNodes, edges |-> Graph(short, back, curve)]
        : short \in {111, 444},
          back \in {Attr(444, None, <<>>), Attr(None, 333, <<>>)},
          curve \in {Attr(666, 333, Curve), Attr(None, None, Curve)}}
    \cup {[nodes |-> LineNodes, edges |-> Lane]}

\* The same streets with a long last leg 2->1 and short legs 3->4 and 4->2:
\* towards node 1 the straight-line estimate stays below the remaining cost at
\* every node, and drops by more than the cost of 4->2 along that edge.
Detour(back) ==
    (<<3, 4, 0>> :> Attr(111, None, <<>>)) @@
    (<<4, 2, 0>> :> Attr(111, None, <<>>)) @@
    (<<3, 2, 0>> :> Attr(444, None, <<>>)) @@
    (<<2, 1, 0>> :> Attr(666, None, <<>>)) @@
    (<<1, 2, 0>> :> back)

\* the graphs of the search study: the detour network, with a way back of
\* some length or of weight zero, and one of the loaded graphs
SearchGraphs ==
    {[nodes |-> LineNodes, edges |-> Detour(back)]
        : back \in {Attr(444, None, <<>>), Attr(None, 0, <<>>)}}
    \cup {[nodes |-> LineNodes,
           edges |-> Graph(444, Attr(444, None, <<>>), Attr(666, 333, Curve))]}

\* the graphs of the window study: lengths only, no weight override
WindowGraphs ==
    {[nodes |-> LineNodes,
      edges |-> Graph(444, Attr(444, None, <<>>), Attr(666, None, Curve))],
     [nodes |-> LineNodes, edges |-> Detour(Attr(444, None, <<>>))]}

\* what the user can have in the text fields: a text _parse_point returns
\* None for, a start on node 3, an end on node 1
NoPoint == <<>>
StartInputs == {NoPoint, <<0, 4>>}
EndInputs == {NoPoint, <<0, 0>>}

\* count of simulate_scattered_damage
Counts == {1, 2}

\* what the callers pass: damage circles <<lat, lon, radius_m>>
\* (50.0 is the radius of the damage click, ui/main_window.py:352)
Circles == {<<0, 1, DefaultRadius>>, <<0, 3, DefaultRadius>>, <<0, 3, 200>>,
            <<-2, 1, DefaultRadius>>}

\* map clicks <<lat, lon>>: on a node, halfway between two nodes, beside the
\* curved way, on the middle of the curved way
Clicks == {<<0, 0>>, <<0, 1>>, <<-1, 2>>, <<-2, 1>>}

\* max_distance_m: the default, and the distance of one millidegree
MaxDistances == {DefaultMaxDistance, Haversine(0, 0, 0, 1)}

NoIO == [op |-> "none"]

NoResult == [path |-> <<>>, visited_count |-> 0, total_dist |-> 0,
             success |-> FALSE, visited |-> {}]

SearchIdle ==
    /\ pc = "idle"
    /\ start = None /\ end = None /\ ignore_damage = FALSE
    /\ queue = {} /\ distances = <<>> /\ g_score = <<>> /\ parents = <<>>
    /\ visited = {} /\ visited_count = 0 /\ success = FALSE
    /\ dres = NoResult /\ ares = NoResult

\* ui/main_window.py:40-59: no damage scenario, no resolved nodes, empty fields
WindowIdle ==
    /\ damage_active = FALSE
    /\ start_node = None /\ end_node = None
    /\ start_input = <<>> /\ end_input = <<>>
    /\ cleared = {}
    /\ loaded = edges

Init ==
    /\ \E g \in LoadedGraphs : nodes = g.nodes /\ edges = g.edges
    /\ calls = <<>>
    /\ before = <<>>
    /\ blocked_edges = {}
    /\ io = NoIO
    /\ SearchIdle
    /\ WindowIdle

\* ------------------------------------------------ data_manager operations
ApplyDamageArea(lat, lon, radius_m) ==
    /\ pc = "idle"
    /\ LET st == apply_damage_area(nodes, edges, lat, lon, radius_m)
       IN  /\ edges' = st.E
           /\ blocked_edges' = st.blocked_edges
    /\ before' = edges
    /\ calls' = <<"apply_damage_area">>
    /\ io' = [op |-> "apply_damage_area", lat |-> lat, lon |-> lon,
              radius_m |-> radius_m]
    /\ UNCHANGED <<nodes, searchVars>>
    /\ UNCHANGED uiVars

BlockArea(lat, lon, radius_m) ==
    /\ pc = "idle"
    /\ LET st == block_area(nodes, edges, lat, lon, radius_m)
       IN  /\ edges' = st.E
           /\ blocked_edges' = st.blocked_edges
    /\ before' = edges
    /\ calls' = <<"block_area">>
    /\ io' = [op |-> "block_area", lat |-> lat, lon |-> lon,
              radius_m |-> radius_m]
    /\ UNCHANGED <<nodes, searchVars>>
    /\ UNCHANGED uiVars

ResetGraphDamage ==
    /\ pc = "idle"
    /\ edges' = reset_graph_damage(edges)
    /\ calls' = <<"reset_graph_damage">>
    /\ before' = <<>> /\ blocked_edges' = {} /\ io' = NoIO
    /\ UNCHANGED <<nodes, searchVars>>
    /\ UNCHANGED uiVars

ResetGraphWeights ==
    /\ pc = "idle"
    /\ edges' = reset_graph_weights(edges)
    /\ calls' = <<"reset_graph_weights">>
    /\ before' = <<>> /\ blocked_edges' = {} /\ io' = NoIO
    /\ UNCHANGED <<nodes, searchVars>>
    /\ UNCHANGED uiVars

ResetGraphState ==
    /\ pc = "idle"
    /\ edges' = reset_graph_state(edges)
    /\ IF calls = <<"apply_damage_area">>
       THEN /\ calls' = <<"apply_damage_area", "reset_graph_state">>
            /\ UNCHANGED <<before, blocked_edges, io>>
       ELSE /\ calls' = <<"reset_graph_state">>
            /\ before' = <<>> /\ blocked_edges' = {} /\ io' = NoIO
    /\ UNCHANGED <<nodes, searchVars>>
    /\ UNCHANGED uiVars

\* ui/main_window.py:430-434 calls simulate_scattered_damage on the graph that
\* reset_graph_damage has just cleaned
SimulateScatteredDamage(count) ==
    /\ pc = "idle"
    /\ calls = <<"reset_graph_damage">>
    /\ \E o \in simulate_scattered_damage(nodes, edges, count) :
          /\ edges' = o.E
          /\ io' = [op |-> "simulate_scattered_damage", count |-> count,
                    chosen |-> o.chosen, results |-> o.results]
    /\ calls' = <<"simulate_scattered_damage">>
    /\ before' = edges
    /\ blocked_edges' = {}
    /\ UNCHANGED <<nodes, searchVars>>
    /\ UNCHANGED uiVars

\* --------------------------------------------------- resolver operations
GetNearestNode(lat, lon, max_distance_m) ==
    /\ pc = "idle"
    /\ \E node_id \in NearestNodes(nodes, lat, lon) :
          LET r == get_nearest_node(nodes, node_id, lat, lon, max_distance_m)
          IN  io' = [op |-> "get_nearest_node", lat |-> lat, lon |-> lon,
                     max_distance_m |-> max_distance_m,
                     raised |-> r.raised, node_id |-> r.node_id]
    /\ calls' = <<"get_nearest_node">>
    /\ before' = <<>> /\ blocked_edges' = {}
    /\ UNCHANGED <<nodes, edges, searchVars>>
    /\ UNCHANGED uiVars

GetNearestEdgePoint(lat, lon) ==
    /\ pc = "idle"
    /\ \E e \in NearestEdges(nodes, edges, lat, lon) :
          LET r == get_nearest_edge_point(nodes, edges, e, lat, lon)
          IN  io' = [op |-> "get_nearest_edge_point", lat |-> lat, lon |-> lon,
                     u |-> e[1], v |-> e[2], key |-> e[3],
                     proj_lat |-> r.proj_lat, proj_lon |-> r.proj_lon,
                     target_node |-> r.target_node]
    /\ calls' = <<"get_nearest_edge_point">>
    /\ before' = <<>> /\ blocked_edges' = {}
    /\ UNCHANGED <<nodes, edges, searchVars>>
    /\ UNCHANGED uiVars

\* ------------------------------------------------ core/algorithms.py:57-64
RECURSIVE ReconstructLoop(_, _, _)
ReconstructLoop(par, cur, path) ==
    IF cur = None THEN path
    ELSE ReconstructLoop(par, par[cur], <<cur>> \o path)

\* faulty variant: the walk stops at the node whose parent is None and leaves it out
reconstruct_path_DropsStart(par, last) ==
    LET path == ReconstructLoop(par, last, <<>>)
    IN  IF path = <<>> THEN path ELSE Tail(path)

\* the path is built backwards and reversed; prepending gives the same list
reconstruct_path(par, last) == ReconstructLoop(par, last, <<>>)

\* -------------------------------------------------------- search helpers
\* faulty variant: the largest tuple is popped
HeapMin_PopsLargest(q) ==
    CHOOSE a \in q : \A b \in q : a[1] > b[1] \/ (a[1] = b[1] /\ a[2] >= b[2])

\* heapq.heappop: the smallest (priority, node) tuple
HeapMin(q) ==
    CHOOSE a \in q : \A b \in q : a[1] < b[1] \/ (a[1] = b[1] /\ a[2] <= b[2])

\* dict.get(key, float('inf'))
GetOrInf(d, n) == IF d[n] = None THEN Inf ELSE d[n]

RECURSIVE NodeSeq(_)
NodeSeq(S) ==
    IF S = {} THEN <<>>
    ELSE LET m == CHOOSE a \in S : \A b \in S : a <= b
         IN  <<m>> \o NodeSeq(S \ {m})

\* min(visited, key=lambda n: heuristic(G, n, end)) returns the first node of
\* the set's iteration order that attains the minimum; that order depends on
\* the hash table's history, so any node attaining the minimum can come out
FallbackNodes(N, vis, e) ==
    {n \in vis : \A m \in vis : heuristic(N, n, e) <= heuristic(N, m, e)}

\* ----------------------------------------------- core/algorithms.py:89-102
\* faulty variant: the edge weight is stored as the neighbour's distance
RECURSIVE DijkstraRelax_StoresWeight(_, _, _, _, _, _)
DijkstraRelax_StoresWeight(E, ignore, current, current_dist, ns, st) ==
    IF ns = <<>> THEN st
    ELSE LET neighbor == Head(ns)
             weight == get_best_edge_weight(E, current, neighbor, ignore)
             new_dist == Plus(current_dist, weight)
         IN  IF IsInf(weight)
             THEN DijkstraRelax_StoresWeight(E, ignore, current, current_dist, Tail(ns), st)
             ELSE IF new_dist < GetOrInf(st.distances, neighbor)
                  THEN DijkstraRelax_StoresWeight(E, ignore, current, current_dist, Tail(ns),
                         [distances |-> [st.distances EXCEPT ![neighbor] = weight],
                          parents |-> [st.parents EXCEPT ![neighbor] = current],
                          queue |-> st.queue \cup {<<new_dist, neighbor>>}])
                  ELSE DijkstraRelax_StoresWeight(E, ignore, current, current_dist, Tail(ns), st)

\* faulty variant: a pair that resolves to +infinity is relaxed at the default
\* weight instead of being skipped
RECURSIVE DijkstraRelax_BlockedAtDefault(_, _, _, _, _, _)
DijkstraRelax_BlockedAtDefault(E, ignore, current, current_dist, ns, st) ==
    IF ns = <<>> THEN st
    ELSE LET neighbor == Head(ns)
             best == get_best_edge_weight(E, current, neighbor, ignore)
             weight == IF IsInf(best) THEN DefaultWeight ELSE best
             new_dist == Plus(current_dist, weight)
         IN  IF new_dist < GetOrInf(st.distances, neighbor)
             THEN DijkstraRelax_BlockedAtDefault(E, ignore, current, current_dist, Tail(ns),
                    [distances |-> [st.distances EXCEPT ![neighbor] = new_dist],
                     parents |-> [st.parents EXCEPT ![neighbor] = current],
                     queue |-> st.queue \cup {<<new_dist, neighbor>>}])
             ELSE DijkstraRelax_BlockedAtDefault(E, ignore, current, current_dist, Tail(ns), st)

\* the neighbour loop of dijkstra_search; st = [distances, parents, queue]
RECURSIVE DijkstraRelax(_, _, _, _, _, _)
DijkstraRelax(E, ignore, current, current_dist, ns, st) ==
    IF ns = <<>> THEN st
    ELSE LET neighbor == Head(ns)
             weight == get_best_edge_weight(E, current, neighbor, ignore)
             new_dist == Plus(current_dist, weight)
         IN  IF IsInf(weight)
             THEN DijkstraRelax(E, ignore, current, current_dist, Tail(ns), st)
             ELSE IF new_dist < GetOrInf(st.distances, neighbor)
                  THEN DijkstraRelax(E, ignore, current, current_dist, Tail(ns),
                         [distances |-> [st.distances EXCEPT ![neighbor] = new_dist],
                          parents |-> [st.parents EXCEPT ![neighbor] = current],
                          queue |-> st.queue \cup {<<new_dist, neighbor>>}])
                  ELSE DijkstraRelax(E, ignore, current, current_dist, Tail(ns), st)

\* ---------------------------------------------- core/algorithms.py:137-150
\* faulty variant: tentative_g is the edge weight alone, g_score[current] is not added
RECURSIVE AstarRelax_DropsG(_, _, _, _, _, _, _)
AstarRelax_DropsG(N, E, ignore, current, e, ns, st) ==
    IF ns = <<>> THEN st
    ELSE LET neighbor == Head(ns)
             weight == get_best_edge_weight(E, current, neighbor, ignore)
             tentative_g == weight
         IN  IF IsInf(weight)
             THEN AstarRelax_DropsG(N, E, ignore, current, e, Tail(ns), st)
             ELSE IF tentative_g < GetOrInf(st.g_score, neighbor)
                  THEN AstarRelax_DropsG(N, E, ignore, current, e, Tail(ns),
                         [g_score |-> [st.g_score EXCEPT ![neighbor] = tentative_g],
                          parents |-> [st.parents EXCEPT ![neighbor] = current],
                          queue |-> st.queue \cup
                                    {<<tentative_g + heuristic(N, neighbor, e), neighbor>>}])
                  ELSE AstarRelax_DropsG(N, E, ignore, current, e, Tail(ns), st)

\* the neighbour loop of astar_search; st = [g_score, parents, queue]
RECURSIVE AstarRelax(_, _, _, _, _, _, _)
AstarRelax(N, E, ignore, current, e, ns, st) ==
    IF ns = <<>> THEN st
    ELSE LET neighbor == Head(ns)
             weight == get_best_edge_weight(E, current, neighbor, ignore)
             tentative_g == Plus(GetOrInf(st.g_score, current), weight)
         IN  IF IsInf(weight)
             THEN AstarRelax(N, E, ignore, current, e, Tail(ns), st)
             ELSE IF tentative_g < GetOrInf(st.g_score, neighbor)
                  THEN AstarRelax(N, E, ignore, current, e, Tail(ns),
                         [g_score |-> [st.g_score EXCEPT ![neighbor] = tentative_g],
                          parents |-> [st.parents EXCEPT ![neighbor] = current],
                          queue |-> st.queue \cup
                                    {<<tentative_g + heuristic(N, neighbor, e), neighbor>>}])
                  ELSE AstarRelax(N, E, ignore, current, e, Tail(ns), st)

\* {start: 0.0} and {start: None}
StartDict(s) == [n \in Nodes |-> IF n = s THEN 0 ELSE None]
NoParents == [n \in Nodes |-> None]

\* ------------------------------------------------------ the query actions
\* ui/analysis_window.py:38-43 runs dijkstra_search and then astar_search on
\* one graph, start and end; ui/main_window.py:445-470 passes ignore_damage
StartQuery(s, e, ig) ==
    /\ pc = "idle"
    /\ pc' = "dijkstra"
    /\ start' = s /\ end' = e /\ ignore_damage' = ig
    /\ queue' = {<<0, s>>}
    /\ distances' = StartDict(s)
    /\ parents' = NoParents
    /\ visited' = {} /\ visited_count' = 0 /\ success' = FALSE
    /\ calls' = <<>> /\ before' = <<>> /\ blocked_edges' = {} /\ io' = NoIO
    /\ UNCHANGED <<nodes, edges, g_score, dres, ares>>
    /\ UNCHANGED uiVars

\* faulty variant: the entry of an already visited node is looked at and left in
\* the frontier
DijkstraStep_KeepsStale ==
    /\ pc = "dijkstra" /\ queue # {} /\ ~success
    /\ \E top \in {HeapMin(queue)} :
       LET current_dist == top[1]
           current == top[2]
           rest == queue \ {top}
       IN  IF current \in visited
           THEN UNCHANGED <<queue, distances, parents, visited, visited_count,
                            success>>
           ELSE /\ visited' = visited \cup {current}
                /\ visited_count' = visited_count + 1
                /\ IF current = end
                   THEN /\ success' = TRUE
                        /\ queue' = rest
                        /\ UNCHANGED <<distances, parents>>
                   ELSE \E st \in {DijkstraRelax(edges, ignore_damage, current,
                                      current_dist, NodeSeq(Neighbors(edges, current)),
                                      [distances |-> distances, parents |-> parents,
                                       queue |-> rest])} :
                            /\ distances' = st.distances
                            /\ parents' = st.parents
                            /\ queue' = st.queue
                            /\ UNCHANGED success
    /\ UNCHANGED <<graphVars, pc, start, end, ignore_damage, g_score, dres, ares>>
    /\ UNCHANGED uiVars

\* faulty variant: a popped entry is settled and relaxed whether or not its node
\* is already visited
DijkstraStep_NoVisitedCheck ==
    /\ pc = "dijkstra" /\ queue # {} /\ ~success
    /\ LET top == HeapMin(queue)
           current_dist == top[1]
           current == top[2]
           rest == queue \ {top}
       IN  /\ visited' = visited \cup {current}
           /\ visited_count' = visited_count + 1
           /\ IF current = end
              THEN /\ success' = TRUE
                   /\ queue' = rest
                   /\ UNCHANGED <<distances, parents>>
              ELSE LET st == DijkstraRelax(edges, ignore_damage, current,
                                 current_dist, NodeSeq(Neighbors(edges, current)),
                                 [distances |-> distances, parents |-> parents,
                                  queue |-> rest])
                   IN  /\ distances' = st.distances
                       /\ parents' = st.parents
                       /\ queue' = st.queue
                       /\ UNCHANGED success
    /\ UNCHANGED <<graphVars, pc, start, end, ignore_damage, g_score, dres, ares>>
    /\ UNCHANGED uiVars

\* one iteration of the while loop of dijkstra_search
DijkstraStep ==
    /\ pc = "dijkstra" /\ queue # {} /\ ~success
    /\ \E top \in {HeapMin(queue)} :
       LET current_dist == top[1]
           current == top[2]
           rest == queue \ {top}
       IN  IF current \in visited
           THEN /\ queue' = rest
                /\ UNCHANGED <<distances, parents, visited, visited_count, success>>
           ELSE /\ visited' = visited \cup {current}
                /\ visited_count' = visited_count + 1
                /\ IF current = end
                   THEN /\ success' = TRUE
                        /\ queue' = rest
                        /\ UNCHANGED <<distances, parents>>
                   ELSE \E st \in {DijkstraRelax(edges, ignore_damage, current,
                                      current_dist, NodeSeq(Neighbors(edges, current)),
                                      [distances |-> distances, parents |-> parents,
                                       queue |-> rest])} :
                            /\ distances' = st.distances
                            /\ parents' = st.parents
                            /\ queue' = st.queue
                            /\ UNCHANGED success
    /\ UNCHANGED <<graphVars, pc, start, end, ignore_damage, g_score, dres, ares>>
    /\ UNCHANGED uiVars

\* core/algorithms.py:104-112, then the first lines of astar_search
DijkstraReturn ==
    /\ pc = "dijkstra" /\ (queue = {} \/ success)
    /\ IF visited = {}
       THEN dres' = [path |-> <<>>, visited_count |-> visited_count,
                     total_dist |-> Inf, success |-> FALSE, visited |-> visited]
       ELSE \E target_node \in (IF success THEN {end}
                                ELSE FallbackNodes(nodes, visited, end)) :
                dres' = [path |-> reconstruct_path(parents, target_node),
                         visited_count |-> visited_count,
                         total_dist |-> GetOrInf(distances, target_node),
                         success |-> success, visited |-> visited]
    /\ pc' = "astar"
    /\ queue' = {<<0, start>>}
    /\ g_score' = StartDict(start)
    /\ distances' = <<>>
    /\ parents' = NoParents
    /\ visited' = {} /\ visited_count' = 0 /\ success' = FALSE
    /\ UNCHANGED <<graphVars, start, end, ignore_damage, ares>>
    /\ UNCHANGED uiVars

\* one iteration of the while loop of astar_search
AstarStep ==
    /\ pc = "astar" /\ queue # {} /\ ~success
    /\ \E top \in {HeapMin(queue)} :
       LET current == top[2]
           rest == queue \ {top}
       IN  IF current \in visited
           THEN /\ queue' = rest
                /\ UNCHANGED <<g_score, parents, visited, visited_count, success>>
           ELSE /\ visited' = visited \cup {current}
                /\ visited_count' = visited_count + 1
                /\ IF current = end
                   THEN /\ success' = TRUE
                        /\ queue' = rest
                        /\ UNCHANGED <<g_score, parents>>
                   ELSE \E st \in {AstarRelax(nodes, edges, ignore_damage, current, end,
                                      NodeSeq(Neighbors(edges, current)),
                                      [g_score |-> g_score, parents |-> parents,
                                       queue |-> rest])} :
                            /\ g_score' = st.g_score
                            /\ parents' = st.parents
                            /\ queue' = st.queue
                            /\ UNCHANGED success
    /\ UNCHANGED <<graphVars, pc, start, end, ignore_damage, distances, dres, ares>>
    /\ UNCHANGED uiVars

\* faulty variant: the search normalises the graph (reset_graph_state) before it
\* returns
AstarReturn_ResetsGraph ==
    /\ pc = "astar" /\ (queue = {} \/ success)
    /\ IF visited = {}
       THEN ares' = [path |-> <<>>, visited_count |-> visited_count,
                     total_dist |-> Inf, success |-> FALSE, visited |-> visited]
       ELSE \E target_node \in (IF success THEN {end}
                                ELSE FallbackNodes(nodes, visited, end)) :
                ares' = [path |-> reconstruct_path(parents, target_node),
                         visited_count |-> visited_count,
                         total_dist |-> GetOrInf(g_score, target_node),
                         success |-> success, visited |-> visited]
    /\ edges' = reset_graph_state(edges)
    /\ pc' = "done"
    /\ queue' = {} /\ g_score' = <<>> /\ parents' = <<>>
    /\ visited' = {} /\ visited_count' = 0 /\ success' = FALSE
    /\ UNCHANGED <<nodes, calls, before, blocked_edges, io, start, end,
                   ignore_damage, distances, dres>>
    /\ UNCHANGED uiVars

\* core/algorithms.py:152-159
AstarReturn ==
    /\ pc = "astar" /\ (queue = {} \/ success)
    /\ IF visited = {}
       THEN ares' = [path |-> <<>>, visited_count |-> visited_count,
                     total_dist |-> Inf, success |-> FALSE, visited |-> visited]
       ELSE \E target_node \in (IF success THEN {end}
                                ELSE FallbackNodes(nodes, visited, end)) :
                ares' = [path |-> reconstruct_path(parents, target_node),
                         visited_count |-> visited_count,
                         total_dist |-> GetOrInf(g_score, target_node),
                         success |-> success, visited |-> visited]
    /\ pc' = "done"
    /\ queue' = {} /\ g_score' = <<>> /\ parents' = <<>>
    /\ visited' = {} /\ visited_count' = 0 /\ success' = FALSE
    /\ UNCHANGED <<graphVars, start, end, ignore_damage, distances, dres>>
    /\ UNCHANGED uiVars

\* the caller has used both results; the window is idle again
QueryDone ==
    /\ pc = "done"
    /\ pc' = "idle"
    /\ start' = None /\ end' = None /\ ignore_damage' = FALSE
    /\ dres' = NoResult /\ ares' = NoResult
    /\ UNCHANGED <<graphVars, queue, distances, g_score, parents, visited,
                   visited_count, success>>
    /\ UNCHANGED uiVars

Next ==
    \/ \E c \in Circles : ApplyDamageArea(c[1], c[2], c[3])
    \/ \E c \in Circles : BlockArea(c[1], c[2], c[3])
    \/ ResetGraphDamage
    \/ ResetGraphWeights
    \/ ResetGraphState
    \/ \E c \in Clicks, m \in MaxDistances : GetNearestNode(c[1], c[2], m)
    \/ \E c \in Clicks : GetNearestEdgePoint(c[1], c[2])
    \/ \E s \in Nodes, e \in Nodes, ig \in BOOLEAN : StartQuery(s, e, ig)
    \/ DijkstraStep
    \/ DijkstraReturn
    \/ AstarStep
    \/ AstarReturn
    \/ QueryDone

Spec == Init /\ [][Next]_vars

\* The damage subsystem on its own: the operations that write the graph, the
\* scatter among them, with no query in between (a query leaves the graph as
\* it is).
NextDamage ==
    \/ \E c \in Circles : ApplyDamageArea(c[1], c[2], c[3])
    \/ \E c \in Circles : BlockArea(c[1], c[2], c[3])
    \/ ResetGraphDamage
    \/ ResetGraphWeights
    \/ ResetGraphState
    \/ \E count \in Counts : SimulateScatteredDamage(count)

\* the street lengths that only the searches tell apart are left out
InitDamage ==
    /\ Init
    /\ \A e \in DOMAIN edges : edges[e].length # 111

SpecDamage == InitDamage /\ [][NextDamage]_vars

\* The two searches on their own, on a graph nobody writes meanwhile.
NextSearch ==
    \/ \E s \in Nodes, e \in Nodes, ig \in BOOLEAN : StartQuery(s, e, ig)
    \/ DijkstraStep
    \/ DijkstraReturn
    \/ AstarStep
    \/ AstarReturn
    \/ QueryDone

InitSearch ==
    /\ \E g \in SearchGraphs : nodes = g.nodes /\ edges = g.edges
    /\ calls = <<>>
    /\ before = <<>>
    /\ blocked_edges = {}
    /\ io = NoIO
    /\ SearchIdle
    /\ WindowIdle

SpecSearch == InitSearch /\ [][NextSearch]_vars

\* A search is a sequential call: once entered, its loop iterates while it can
\* and the function returns when the loop is left.
SearchRuns == DijkstraStep \/ DijkstraReturn \/ AstarStep \/ AstarReturn

SpecSearchFair == SpecSearch /\ WF_vars(SearchRuns)

\* ui/main_window.py:433-452: the damage has just been applied and the
\* pre-damage "ghost" route is searched with ignore_damage=True; what the damage
\* call did stays on record beside the search
GhostQuery(s, e) ==
    /\ pc = "idle"
    /\ calls = <<"apply_damage_area">>
    /\ pc' = "dijkstra"
    /\ start' = s /\ end' = e /\ ignore_damage' = TRUE
    /\ queue' = {<<0, s>>}
    /\ distances' = StartDict(s)
    /\ parents' = NoParents
    /\ visited' = {} /\ visited_count' = 0 /\ success' = FALSE
    /\ UNCHANGED <<graphVars, g_score, dres, ares>>
    /\ UNCHANGED uiVars

NextGhost ==
    \/ \E c \in Circles : ApplyDamageArea(c[1], c[2], c[3])
    \/ \E s \in Nodes, e \in Nodes : GhostQuery(s, e)
    \/ DijkstraStep
    \/ DijkstraReturn
    \/ AstarStep
    \/ AstarReturn
    \/ QueryDone

SpecGhost == InitSearch /\ [][NextGhost]_vars

\* ------------------------------------------------- ui/main_window.py
\* where the user clicks in damage mode
DamageClicks == {<<c[1], c[2]>> : c \in {d \in Circles : d[3] = DefaultRadius}}

\* the user types into the two text fields (:105-112), or empties them
EditInputs(a, b) ==
    /\ pc = "idle"
    /\ start_input' = a /\ end_input' = b
    /\ <<a, b>> # <<start_input, end_input>>
    /\ UNCHANGED <<graphVars, searchVars, damage_active, start_node, end_node,
                   cleared, loaded>>

\* _resolve_route_inputs (:373-411): the node get_nearest_edge_point returns
ResolvedNodes(point) ==
    {get_nearest_edge_point(nodes, edges, e, point[1], point[2]).target_node
        : e \in NearestEdges(nodes, edges, point[1], point[2])}

\* run_algorithm (:207-234) from the line after the inputs are parsed, on the
\* edge attributes E with damage_active = active: the nodes are resolved, the
\* graph is normalised unless a damage scenario is active, the search begins
RouteFrom(E, active) ==
    /\ \E s \in ResolvedNodes(start_input), e \in ResolvedNodes(end_input) :
          /\ start_node' = s /\ end_node' = e
          /\ start' = s /\ end' = e
          /\ queue' = {<<0, s>>}
          /\ distances' = StartDict(s)
    /\ edges' = IF ~active THEN reset_graph_state(E) ELSE E
    /\ pc' = "dijkstra"
    /\ ignore_damage' = FALSE
    /\ parents' = NoParents
    /\ visited' = {} /\ visited_count' = 0 /\ success' = FALSE
    /\ calls' = <<>> /\ before' = <<>> /\ blocked_edges' = {} /\ io' = NoIO
    /\ UNCHANGED <<nodes, g_score, dres, ares>>

\* run_algorithm (:207-277); with a field empty or invalid it returns at once
RunAlgorithm ==
    /\ pc = "idle"
    /\ start_input # NoPoint /\ end_input # NoPoint
    /\ RouteFrom(edges, damage_active)
    /\ UNCHANGED <<damage_active, start_input, end_input, cleared, loaded>>

\* handle_damage_request (:345-360)
HandleDamageRequest(lat, lon) ==
    /\ pc = "idle"
    /\ LET st == apply_damage_area(nodes, edges, lat, lon, DefaultRadius)
       IN  /\ edges' = st.E
           /\ blocked_edges' = st.blocked_edges
           /\ damage_active' = IF st.blocked_edges # {} THEN TRUE
                                ELSE damage_active
           /\ cleared' = cleared \ st.blocked_edges
    /\ before' = edges
    /\ calls' = <<"apply_damage_area">>
    /\ io' = [op |-> "apply_damage_area", lat |-> lat, lon |-> lon,
              radius_m |-> DefaultRadius]
    /\ UNCHANGED <<nodes, searchVars, start_node, end_node, start_input,
                   end_input, loaded>>

\* _reset_damages (:362-371): reset_graph_weights, damage_active = False, then
\* run_algorithm, which returns at once when a field is empty or invalid
ResetDamages ==
    /\ pc = "idle"
    /\ damage_active' = FALSE
    /\ cleared' = cleared \cup {e \in DOMAIN edges : edges[e].blocked}
    /\ IF start_input = NoPoint \/ end_input = NoPoint
       THEN /\ edges' = reset_graph_weights(edges)
            /\ calls' = <<"reset_graph_weights">>
            /\ before' = <<>> /\ blocked_edges' = {} /\ io' = NoIO
            /\ UNCHANGED <<nodes, searchVars, start_node, end_node>>
       ELSE RouteFrom(reset_graph_weights(edges), FALSE)
    /\ UNCHANGED <<start_input, end_input, loaded>>

\* _open_analysis(run=True) (:330-335): the comparison on the resolved nodes
OpenAnalysis ==
    /\ start_node # None /\ end_node # None
    /\ StartQuery(start_node, end_node, FALSE)

NextWindow ==
    \/ \E a \in StartInputs, b \in EndInputs : EditInputs(a, b)
    \/ RunAlgorithm
    \/ \E c \in DamageClicks : HandleDamageRequest(c[1], c[2])
    \/ ResetDamages
    \/ OpenAnalysis
    \/ DijkstraStep
    \/ DijkstraReturn
    \/ AstarStep
    \/ AstarReturn
    \/ QueryDone

InitWindow ==
    /\ \E g \in WindowGraphs : nodes = g.nodes /\ edges = g.edges
    /\ calls = <<>>
    /\ before = <<>>
    /\ blocked_edges = {}
    /\ io = NoIO
    /\ SearchIdle
    /\ WindowIdle

SpecWindow == InitWindow /\ [][NextWindow]_vars

\* ================================================================ claims
\* ----------------------------------------------------- shared vocabulary
DamageCalls == {<<"apply_damage_area">>, <<"block_area">>}
Results == {dres, ares}
Last(path) == path[Len(path)]

\* "weight if present, else length if present, else 1.0"
StatedCost(data) ==
    CASE data.weight # None -> data.weight
      [] data.weight = None /\ data.length # None -> data.length
      [] OTHER -> 1

MinOf(S) == CHOOSE a \in S : \A b \in S : a <= b

\* the nodes reachable from the nodes S over the pairs Rel
RECURSIVE Closure(_, _)
Closure(S, Rel) ==
    LET T == S \cup {p[2] : p \in {q \in Rel : q[1] \in S}}
    IN  IF T = S THEN S ELSE Closure(T, Rel)

\* pairs whose resolved cost is finite
PassablePairs(E, ig) ==
    {p \in Nodes \X Nodes : ~IsInf(get_best_edge_weight(E, p[1], p[2], ig))}

\* pairs with at least one parallel edge that is not blocked
NonBlockedPairs(E) ==
    {p \in Nodes \X Nodes : \E e \in GetEdgeData(E, p[1], p[2]) : ~E[e].blocked}

\* the sum of the resolved costs over the consecutive pairs of a path
RECURSIVE PathCost(_, _, _)
PathCost(E, path, ig) ==
    IF Len(path) <= 1 THEN 0
    ELSE Plus(get_best_edge_weight(E, path[1], path[2], ig),
              PathCost(E, Tail(path), ig))

NoBlockedEdge == \A e \in DOMAIN edges : ~edges[e].blocked

\* h(n) <= cost(n, m) + h(m) over every passable pair, towards the target e
Consistent(e) ==
    \A p \in PassablePairs(edges, ignore_damage) :
        heuristic(nodes, p[1], e)
            <= get_best_edge_weight(edges, p[1], p[2], ignore_damage)
               + heuristic(nodes, p[2], e)

MinHeuristicNodes(vis, e) ==
    {n \in vis : \A m \in vis : heuristic(nodes, n, e) <= heuristic(nodes, m, e)}

\* C1 (as stated): after apply_damage_area and then reset_graph_state, every
\* edge the damage call returned has the length, the weight and the blocked
\* status it had before the damage call.
C1_RoundTripRestores ==
    calls = <<"apply_damage_area", "reset_graph_state">> =>
        \A e \in blocked_edges :
            /\ edges[e].length = before[e].length
            /\ edges[e].weight = before[e].weight
            /\ edges[e].blocked = before[e].blocked

\* C2 (as stated): a damage call does not change the cost a pair has in
\* ignore-damage mode: a pair that resolved to a finite cost with
\* ignore_damage=True before the call resolves to the same cost after it.
C2_IgnoreDamageCostKept ==
    calls \in DamageCalls =>
        \A u \in Nodes, v \in Nodes :
            ~IsInf(get_best_edge_weight(before, u, v, TRUE)) =>
                get_best_edge_weight(edges, u, v, TRUE)
                    = get_best_edge_weight(before, u, v, TRUE)

\* C3: with ignore_damage=False the resolved cost of a pair is the minimum of
\* (weight, else length, else 1.0) over its parallel edges that are not
\* blocked, and +infinity when all are blocked or the pair has no edge.
C3_BestWeightIsMinPassable ==
    \A u \in Nodes, v \in Nodes :
        LET open == {e \in GetEdgeData(edges, u, v) : ~edges[e].blocked}
        IN  get_best_edge_weight(edges, u, v, FALSE)
                = IF open = {} THEN Inf
                  ELSE MinOf({StatedCost(edges[e]) : e \in open})

\* C3 witness: one pair is wholly blocked while another pair has two open
\* parallel edges of different cost
C3_Witness ==
    /\ \E u \in Nodes, v \in Nodes :
          /\ GetEdgeData(edges, u, v) # {}
          /\ \A e \in GetEdgeData(edges, u, v) : edges[e].blocked
          /\ IsInf(get_best_edge_weight(edges, u, v, FALSE))
    /\ \E e \in DOMAIN edges, f \in DOMAIN edges :
          /\ e[1] = f[1] /\ e[2] = f[2] /\ e[3] # f[3]
          /\ ~edges[e].blocked /\ ~edges[f].blocked
          /\ StatedCost(edges[e]) < StatedCost(edges[f])
          /\ get_best_edge_weight(edges, e[1], e[2], FALSE) = StatedCost(edges[e])

\* C4: the two modes of get_best_edge_weight give different values for a
\* pair only if one of its parallel edges is blocked.
C4_ModesDifferOnlyWhenBlocked ==
    \A u \in Nodes, v \in Nodes :
        get_best_edge_weight(edges, u, v, FALSE) # get_best_edge_weight(edges, u, v, TRUE)
            => \E e \in GetEdgeData(edges, u, v) : edges[e].blocked

\* C4 witness: while another pair is blocked, an open pair with two parallel
\* edges, one of them with a weight override, resolves to one finite cost in
\* both modes
C4_Witness ==
    /\ \E e \in DOMAIN edges : edges[e].blocked
    /\ \E u \in Nodes, v \in Nodes :
          /\ Cardinality(GetEdgeData(edges, u, v)) = 2
          /\ \A e \in GetEdgeData(edges, u, v) : ~edges[e].blocked
          /\ \E e \in GetEdgeData(edges, u, v) :
                edges[e].weight # None /\ edges[e].weight # edges[e].length
          /\ ~IsInf(get_best_edge_weight(edges, u, v, TRUE))
          /\ get_best_edge_weight(edges, u, v, FALSE)
                = get_best_edge_weight(edges, u, v, TRUE)

\* C5 (as stated): with no blocked edge and a consistent heuristic,
\* dijkstra_search and astar_search on the same start and end return the
\* same total cost and the same success flag.
C5_SameCostAndSuccess ==
    (pc = "done" /\ NoBlockedEdge /\ Consistent(end)) =>
        /\ dres.success = ares.success
        /\ dres.total_dist = ares.total_dist

\* C5 (amended): with no blocked edge and a consistent heuristic, the two
\* searches return the same success flag, and the same total cost whenever
\* the target is reached or one settled node alone has the minimal heuristic
\* distance to the target.
C5_SameCostUnlessFallbackTie ==
    (pc = "done" /\ NoBlockedEdge /\ Consistent(end)) =>
        /\ dres.success = ares.success
        /\ (dres.success \/ Cardinality(MinHeuristicNodes(dres.visited, end)) = 1)
              => dres.total_dist = ares.total_dist

\* C5 witness: both searches reach the target over two hops at the same
\* cost, A* settling fewer nodes than Dijkstra
C5_Witness ==
    /\ pc = "done" /\ NoBlockedEdge /\ Consistent(end)
    /\ dres.success /\ ares.success
    /\ Len(dres.path) >= 3
    /\ dres.total_dist = ares.total_dist
    /\ ares.visited_count < dres.visited_count

\* C6: when the target cannot be reached from start over passable pairs,
\* both searches return success = false and a non-empty path from start to
\* a settled node of minimal heuristic distance to the target.
C6_FallbackPath ==
    (pc = "done" /\ end \notin Closure({start}, PassablePairs(edges, ignore_damage))) =>
        \A r \in Results :
            /\ ~r.success
            /\ r.path # <<>>
            /\ r.path[1] = start
            /\ Last(r.path) \in MinHeuristicNodes(r.visited, end)

\* C6 witness: an unreachable target, and a fallback path that leaves start
C6_Witness ==
    /\ pc = "done"
    /\ end \notin Closure({start}, PassablePairs(edges, ignore_damage))
    /\ \A r \in Results : ~r.success /\ Len(r.path) >= 2 /\ r.path[1] = start

\* C7 (as stated): when start has no passable neighbour and is not the
\* target, a search returns visited_count = 1, an empty path, an infinite
\* total cost and success = false.
C7_IsolatedStartResult ==
    (/\ pc = "done" /\ start # end
     /\ \A n \in Neighbors(edges, start) :
           IsInf(get_best_edge_weight(edges, start, n, ignore_damage))) =>
        \A r \in Results :
            /\ r.visited_count = 1
            /\ r.path = <<>>
            /\ IsInf(r.total_dist)
            /\ ~r.success

\* C8 (as stated): when the target is unreachable, visited_count is the
\* number of nodes reachable from start over the pairs that have at least
\* one parallel edge that is not blocked, start included.
C8_VisitedCountIsReachableCount ==
    (/\ pc = "done" /\ ~ignore_damage
     /\ end \notin Closure({start}, NonBlockedPairs(edges))) =>
        \A r \in Results :
            r.visited_count = Cardinality(Closure({start}, NonBlockedPairs(edges)))

\* C9: the total cost dijkstra_search returns, on success and on fallback,
\* is the sum of the resolved costs over the consecutive pairs of the path
\* it returns.
C9_DijkstraCostIsPathCost ==
    pc \in {"astar", "done"} =>
        dres.total_dist = PathCost(edges, dres.path, ignore_damage)

\* C9 witness: a fallback result whose cost is the cost to the fallback
\* node, over at least one hop
C9_Witness ==
    /\ pc = "done" /\ ~dres.success
    /\ Len(dres.path) >= 2
    /\ Last(dres.path) # end
    /\ dres.total_dist > 0
    /\ dres.total_dist = PathCost(edges, dres.path, ignore_damage)

\* C10 (as stated): the total cost astar_search returns is the sum of the
\* resolved costs over the consecutive pairs of the path it returns.
C10_AstarCostIsPathCost ==
    pc = "done" => ares.total_dist = PathCost(edges, ares.path, ignore_damage)

\* C11: over damage calls with no reset in between, orig_length of an edge is
\* written at most once: a damage call writes it only on an edge that had
\* none, was not blocked and is blocked by this call, with the length the
\* edge has at that moment (every such edge with a length gets it); an edge
\* that already has orig_length keeps it when a later damage call hits it.
C11_OrigLengthWrittenOnce ==
    calls \in DamageCalls =>
        \A e \in DOMAIN edges :
            /\ before[e].orig_length # None =>
                  edges[e].orig_length = before[e].orig_length
            /\ (before[e].orig_length = None /\ edges[e].orig_length # None) =>
                  /\ ~before[e].blocked /\ edges[e].blocked
                  /\ e \in blocked_edges
                  /\ edges[e].orig_length = before[e].length
            /\ (e \in blocked_edges /\ before[e].orig_length = None
                                    /\ before[e].length # None) =>
                  edges[e].orig_length = before[e].length

\* C11 witness: a damage call hits an edge that an earlier damage call had
\* blocked (its orig_length stays) and blocks another edge for the first
\* time, one whose weight differed from its length
C11_Witness ==
    /\ calls \in DamageCalls
    /\ \E e \in blocked_edges :
          /\ before[e].blocked /\ before[e].orig_length # None
          /\ edges[e].orig_length = before[e].orig_length
    /\ \E e \in blocked_edges :
          /\ ~before[e].blocked /\ before[e].orig_length = None
          /\ before[e].weight # None /\ before[e].weight # before[e].length
          /\ edges[e].orig_length = before[e].length
          /\ edges[e].orig_length # None

\* C12: a reset_graph_state call leaves every edge not blocked; an edge that
\* has orig_length gets length = weight = orig_length; an edge without
\* orig_length but with a length gets weight = length and keeps its length;
\* an edge with neither has no weight key afterwards.
C12_ResetGraphStatePost ==
    [][ResetGraphState =>
          \A e \in DOMAIN edges :
              /\ ~edges'[e].blocked
              /\ edges'[e].orig_length = edges[e].orig_length
              /\ edges[e].orig_length # None =>
                    /\ edges'[e].length = edges[e].orig_length
                    /\ edges'[e].weight = edges[e].orig_length
              /\ (edges[e].orig_length = None /\ edges[e].length # None) =>
                    /\ edges'[e].length = edges[e].length
                    /\ edges'[e].weight = edges[e].length
              /\ (edges[e].orig_length = None /\ edges[e].length = None) =>
                    edges'[e].weight = None]_vars

\* C12 witness: reset_graph_state has run after a damage call, on a graph
\* with an edge of each kind: one with orig_length, one with a length only,
\* one with neither that held a weight before the damage
C12_Witness ==
    /\ calls = <<"apply_damage_area", "reset_graph_state">>
    /\ blocked_edges # {}
    /\ \E e \in DOMAIN edges :
          /\ edges[e].orig_length # None /\ ~edges[e].blocked
          /\ edges[e].length = edges[e].orig_length
          /\ edges[e].weight = edges[e].orig_length
    /\ \E e \in DOMAIN edges :
          /\ edges[e].orig_length = None /\ edges[e].length # None
          /\ edges[e].weight = edges[e].length
    /\ \E e \in DOMAIN edges :
          /\ edges[e].orig_length = None /\ edges[e].length = None
          /\ before[e].weight # None /\ edges[e].weight = None

\* C13: reset_graph_state is idempotent: on the edge state a reset_graph_state
\* call produced, a second call in a row changes nothing (length, weight,
\* blocked, orig_length of every edge stay as the first call left them).
C13_ResetIdempotent ==
    (calls # <<>> /\ Last(calls) = "reset_graph_state") =>
        reset_graph_state(edges) = edges

\* C13 witness: the first reset undid a damage call that had blocked edges and
\* written orig_length, and a second reset leaves its result as it is
C13_Witness ==
    /\ calls = <<"apply_damage_area", "reset_graph_state">>
    /\ \E e \in blocked_edges :
          before[e].orig_length = None /\ edges[e].orig_length # None
    /\ edges # before
    /\ reset_graph_state(edges) = edges

\* the edges whose own distance to the centre is within the radius, the
\* edges of the reverse direction of one of them, and the edges between the
\* endpoints of one of them in either direction
WithinRadius(lat, lon, radius_m) ==
    {e \in DOMAIN before : EdgeDistance(nodes, before, e, lat, lon) <= radius_m}
ReverseOf(S) == {e \in DOMAIN before : \E f \in S : e[1] = f[2] /\ e[2] = f[1]}
SamePairAs(S) ==
    {e \in DOMAIN before : \E f \in S : {e[1], e[2]} = {f[1], f[2]}}
SameDamageState(e) ==
    /\ edges[e].blocked = before[e].blocked
    /\ edges[e].weight = before[e].weight
    /\ edges[e].orig_length = before[e].orig_length

\* C14: after apply_damage_area every edge whose distance to the centre (to
\* its geometry when it has one, else to the midpoint of its endpoints) is
\* within the radius is blocked with weight +infinity, and so is every edge
\* of its reverse direction; the returned keys are exactly the edges the call
\* marked: each is an existing edge between the endpoints of an edge within
\* the radius, blocked with weight +infinity, and no edge outside the
\* returned keys was changed.
C14_DamageBlocksWithinRadius ==
    calls = <<"apply_damage_area">> =>
        LET hit == WithinRadius(io.lat, io.lon, io.radius_m)
        IN  /\ \A e \in hit \cup ReverseOf(hit) :
                  /\ edges[e].blocked /\ IsInf(edges[e].weight)
                  /\ e \in blocked_edges
            /\ blocked_edges \subseteq SamePairAs(hit)
            /\ \A e \in blocked_edges : edges[e].blocked /\ IsInf(edges[e].weight)
            /\ \A e \in DOMAIN edges \ blocked_edges : edges[e] = before[e]

\* C14 witness: the circle reaches one edge only, over its geometry, and the
\* edge of the reverse direction, itself out of reach, is blocked with it
C14_Witness ==
    /\ calls = <<"apply_damage_area">>
    /\ \E e \in WithinRadius(io.lat, io.lon, io.radius_m) :
          /\ before[e].geometry # <<>> /\ ~before[e].blocked
          /\ edges[e].blocked /\ IsInf(edges[e].weight)
          /\ \E f \in ReverseOf({e}) :
                /\ f \notin WithinRadius(io.lat, io.lon, io.radius_m)
                /\ ~before[f].blocked /\ edges[f].blocked
                /\ f \in blocked_edges
    /\ \E e \in DOMAIN edges : e \notin blocked_edges /\ ~edges[e].blocked

\* C15 (as stated): apply_damage_area leaves blocked, weight and orig_length
\* unchanged on every edge whose own distance exceeds the radius and which is
\* not of the reverse direction of an edge within the radius, even when a
\* parallel edge between the same endpoints lies within the radius.
C15_OnlyWithinRadiusChanged ==
    calls = <<"apply_damage_area">> =>
        LET hit == WithinRadius(io.lat, io.lon, io.radius_m)
        IN  \A e \in DOMAIN edges \ (hit \cup ReverseOf(hit)) : SameDamageState(e)

\* C15 (amended): apply_damage_area leaves blocked, weight and orig_length
\* unchanged on every edge (u, v, k) for which no edge between u and v, in
\* either direction, lies within the radius; an edge parallel to an edge
\* within the radius is blocked with it, whatever its own distance.
C15_OnlyHitPairsChanged ==
    calls = <<"apply_damage_area">> =>
        LET hit == WithinRadius(io.lat, io.lon, io.radius_m)
        IN  /\ \A e \in DOMAIN edges \ SamePairAs(hit) : SameDamageState(e)
            /\ \A e \in SamePairAs(hit) : edges[e].blocked /\ IsInf(edges[e].weight)

\* C15 witness: an edge out of reach is blocked because its parallel edge is
\* within the radius, while an edge of another pair, blocked by an earlier
\* call, and an open edge of a third pair stay as they were
C15_Witness ==
    /\ calls = <<"apply_damage_area">>
    /\ LET hit == WithinRadius(io.lat, io.lon, io.radius_m)
       IN  /\ \E e \in SamePairAs(hit) \ (hit \cup ReverseOf(hit)) :
                 ~before[e].blocked /\ edges[e].blocked
           /\ \E e \in DOMAIN edges \ SamePairAs(hit) :
                 before[e].blocked /\ edges[e] = before[e]
           /\ \E e \in DOMAIN edges \ SamePairAs(hit) :
                 ~before[e].blocked /\ edges[e] = before[e]

\* C16: dijkstra_search and astar_search are read-only on the graph: no step
\* of a search, from its first line to its return, with either value of
\* ignore_damage, changes an edge's length, weight, blocked or orig_length
\* or a node's coordinates.
C16_SearchReadOnly ==
    [][(pc \in {"dijkstra", "astar"} \/ pc' = "dijkstra") =>
          (edges' = edges /\ nodes' = nodes)]_vars

\* C16 witness: both searches have returned a route of at least one hop in
\* ignore-damage mode on a graph that holds blocked edges and edges with
\* orig_length
C16_Witness ==
    /\ pc = "done" /\ ignore_damage
    /\ \E e \in DOMAIN edges : edges[e].blocked /\ edges[e].orig_length # None
    /\ dres.success /\ ares.success
    /\ Len(dres.path) >= 2 /\ Len(ares.path) >= 2

\* C17: get_nearest_node returns the nearest node exactly when its distance
\* to the query point is at most max_distance_m and raises ValueError when
\* the distance is greater; a node it returns is never farther than
\* max_distance_m.
C17_NearestNodeWithinLimit ==
    calls = <<"get_nearest_node">> =>
        LET dist(n) == Haversine(io.lat, io.lon, nodes[n].y, nodes[n].x)
            nearest == MinOf({dist(n) : n \in Nodes})
        IN  /\ nearest <= io.max_distance_m =>
                  /\ io.raised = "" /\ io.node_id \in Nodes
                  /\ dist(io.node_id) = nearest
            /\ nearest > io.max_distance_m =>
                  io.raised = "ValueError" /\ io.node_id = None
            /\ io.node_id # None => dist(io.node_id) <= io.max_distance_m

\* C17 witness: the nearest node lies exactly max_distance_m away from the
\* query point and is returned
C17_Witness ==
    /\ calls = <<"get_nearest_node">>
    /\ io.raised = "" /\ io.node_id \in Nodes
    /\ Haversine(io.lat, io.lon, nodes[io.node_id].y, nodes[io.node_id].x)
          = io.max_distance_m
    /\ io.max_distance_m > 0

\* C18: get_nearest_edge_point returns, for the nearest edge (u, v), u when
\* the projected point is at most as far from u as from v, otherwise v; a
\* tie goes to the first endpoint u.
C18_CloserEndpoint ==
    calls = <<"get_nearest_edge_point">> =>
        LET du == Haversine(io.proj_lat, io.proj_lon, nodes[io.u].y, nodes[io.u].x)
            dv == Haversine(io.proj_lat, io.proj_lon, nodes[io.v].y, nodes[io.v].x)
        IN  /\ du <= dv => io.target_node = io.u
            /\ du > dv => io.target_node = io.v

\* C18 witness: the projection is as far from u as from v, off both
\* endpoints, and u is returned
C18_Witness ==
    /\ calls = <<"get_nearest_edge_point">>
    /\ io.u # io.v
    /\ Haversine(io.proj_lat, io.proj_lon, nodes[io.u].y, nodes[io.u].x)
          = Haversine(io.proj_lat, io.proj_lon, nodes[io.v].y, nodes[io.v].x)
    /\ Haversine(io.proj_lat, io.proj_lon, nodes[io.u].y, nodes[io.u].x) > 0
    /\ io.target_node = io.u

\* C19 (as stated): two runs of simulate_scattered_damage on equal graphs with
\* the same count (the function has no seed to pass) produce the same list of
\* damage events (centres, radii, blocked edge keys) and the same final edge
\* state: whatever another run on the graph before this call can return is
\* what this call returned.
C19_ScatterDeterministic ==
    calls = <<"simulate_scattered_damage">> =>
        \A o \in simulate_scattered_damage(nodes, before, io.count) :
            o.results = io.results /\ o.E = edges

\* C20: simulate_scattered_damage(graph, count) returns min(count, number of
\* edges) events, the i-th centred on the midpoint of the i-th chosen edge
\* with a radius of 15 to 20 m, the chosen edges all different; after the
\* call every chosen edge is blocked and is listed in the blocked-edge set of
\* its own event.
C20_ScatterEvents ==
    calls = <<"simulate_scattered_damage">> =>
        LET n == Cardinality(DOMAIN before)
            events == io.results
            chosen == io.chosen
        IN  /\ Len(events) = IF io.count <= n THEN io.count ELSE n
            /\ Len(chosen) = Len(events)
            /\ \A i \in 1..Len(chosen), j \in 1..Len(chosen) :
                  i # j => chosen[i] # chosen[j]
            /\ \A i \in 1..Len(events) :
                  /\ chosen[i] \in DOMAIN before
                  /\ <<events[i][1], events[i][2]>>
                        = EdgeMidpoint(nodes, before, chosen[i])
                  /\ events[i][3] >= MinScatterRadius
                  /\ events[i][3] <= MaxScatterRadius
                  /\ chosen[i] \in events[i][4]
                  /\ edges[chosen[i]].blocked

\* C20 witness: two events on a graph of six edges, one of them centred on
\* the middle of the curved way, off the midpoint of its endpoints
C20_Witness ==
    /\ calls = <<"simulate_scattered_damage">>
    /\ io.count = 2 /\ Len(io.results) = 2
    /\ Cardinality(DOMAIN edges) > 2
    /\ \E i \in 1..2 :
          /\ before[io.chosen[i]].geometry # <<>>
          /\ io.results[i][1] # 0
          /\ edges[io.chosen[i]].blocked
          /\ io.chosen[i] \in io.results[i][4]

\* a run on a graph with fewer edges than count: one event for each edge
C20_FewerEdgesThanCount ==
    /\ calls = <<"simulate_scattered_damage">>
    /\ io.count > Cardinality(DOMAIN edges)
    /\ Len(io.results) = Cardinality(DOMAIN edges)

\* C22 (as stated): no stale infinite weight: after any sequence of the damage
\* operations every edge that is not blocked and has a (finite) length has a
\* finite cost, so a pair with such an edge never resolves to +infinity.
C22_NoStaleInfiniteWeight ==
    \A e \in DOMAIN edges :
        (~edges[e].blocked /\ edges[e].length # None) =>
            /\ ~IsInf(EdgeCost(edges[e]))
            /\ ~IsInf(get_best_edge_weight(edges, e[1], e[2], FALSE))

\* C29: reset_graph_damage and reset_graph_state are interchangeable: whenever
\* either runs, the graph it leaves is the graph both compute from the state it
\* ran on: the same length, weight and orig_length on every edge, no edge
\* blocked, and the same get_best_edge_weight for every node pair.
SameResetResult(E) ==
    LET A == reset_graph_damage(E)
        B == reset_graph_state(E)
    IN  /\ \A e \in DOMAIN E :
              /\ A[e].length = B[e].length
              /\ A[e].weight = B[e].weight
              /\ A[e].orig_length = B[e].orig_length
              /\ ~A[e].blocked /\ ~B[e].blocked
        /\ \A u, v \in Nodes : \A ig \in BOOLEAN :
              get_best_edge_weight(A, u, v, ig) = get_best_edge_weight(B, u, v, ig)

C29_ResetsInterchangeable ==
    [][(ResetGraphDamage \/ ResetGraphState) =>
          /\ SameResetResult(edges)
          /\ edges' = reset_graph_damage(edges)
          /\ edges' = reset_graph_state(edges)]_vars

\* a reset has run on a graph in which apply_damage_area had blocked edges
C29_Witness ==
    /\ calls = <<"apply_damage_area", "reset_graph_state">>
    /\ blocked_edges # {}
    /\ \A e \in DOMAIN edges : ~edges[e].blocked
    /\ edges = reset_graph_damage(edges)

\* C30: damage is idempotent and monotone: after apply_damage_area or block_area,
\* apply_damage_area with the same centre and radius changes no edge attribute
\* and returns the same set of edge keys; after simulate_scattered_damage the
\* same holds for apply_damage_area on each event's centre and radius against
\* the keys block_area returned for it; and no damage call turns a blocked edge
\* into an unblocked one.
AppliedAgain(lat, lon, radius_m, keys) ==
    LET again == apply_damage_area(nodes, edges, lat, lon, radius_m)
    IN  /\ again.E = edges
        /\ again.blocked_edges = keys

C30_DamageIdempotentMonotone ==
    /\ calls \in DamageCalls =>
          AppliedAgain(io.lat, io.lon, io.radius_m, blocked_edges)
    /\ calls = <<"simulate_scattered_damage">> =>
          \A i \in 1..Len(io.results) :
              AppliedAgain(io.results[i][1], io.results[i][2], io.results[i][3],
                           io.results[i][4])
    /\ calls \in DamageCalls \cup {<<"simulate_scattered_damage">>} =>
          \A e \in DOMAIN before : before[e].blocked => edges[e].blocked

\* a damage call on a graph that already has blocked edges blocks further ones
C30_Witness ==
    /\ calls = <<"apply_damage_area">>
    /\ \E e \in DOMAIN before : before[e].blocked
    /\ \E e \in blocked_edges : ~before[e].blocked
    /\ \E e \in blocked_edges : before[e].blocked

\* the disaster simulation's events, two of them, each with blocked edges
C30_WitnessScatter ==
    /\ calls = <<"simulate_scattered_damage">>
    /\ Len(io.results) = 2
    /\ \A i \in 1..2 : io.results[i][4] # {}

\* C24: route safety under damage: every path dijkstra_search or astar_search
\* returns with ignore_damage=False, successful or fallback, has on each hop a
\* pair with a parallel edge that is not blocked and a finite resolved cost in
\* the current graph state.
SafePath(path) ==
    \A i \in 1..(Len(path) - 1) :
        /\ ~IsInf(get_best_edge_weight(edges, path[i], path[i + 1], FALSE))
        /\ \E e \in GetEdgeData(edges, path[i], path[i + 1]) : ~edges[e].blocked

C24_RouteSafety ==
    /\ (pc \in {"astar", "done"} /\ ~ignore_damage) => SafePath(dres.path)
    /\ (pc = "done" /\ ~ignore_damage) => SafePath(ares.path)

\* C24 witness: both searches reach the target over two hops, having settled a
\* node that a blocked edge leaves
C24_Witness ==
    /\ pc = "done" /\ ~ignore_damage
    /\ dres.success /\ ares.success
    /\ Len(dres.path) >= 3 /\ Len(ares.path) >= 3
    /\ \E e \in DOMAIN edges :
          /\ edges[e].blocked
          /\ e[1] \in dres.visited \cap ares.visited
          /\ e[1] # end

\* C27: lazy deletion: in every iteration of the two search loops a popped
\* entry whose node is already visited is discarded and nothing else changes;
\* otherwise exactly that node joins the visited set and visited_count grows by
\* one; visited_count equals the size of the visited set before and after.
C27_LazyDeletion ==
    [][(DijkstraStep \/ AstarStep) =>
          LET top == HeapMin(queue)
          IN  /\ visited_count = Cardinality(visited)
              /\ visited_count' = Cardinality(visited')
              /\ top[2] \in visited =>
                    /\ queue' = queue \ {top}
                    /\ UNCHANGED <<distances, g_score, parents, visited,
                                   visited_count, success>>
              /\ top[2] \notin visited =>
                    /\ visited' = visited \cup {top[2]}
                    /\ visited_count' = visited_count + 1]_vars

\* C27 witness: a stale entry of a settled node is the minimum of the frontier
StaleOnTop(p) ==
    /\ pc = p /\ queue # {} /\ ~success
    /\ HeapMin(queue)[2] \in visited
    /\ visited_count = Cardinality(visited)
    /\ visited_count >= 3

C27_Witness == StaleOnTop("dijkstra")

C27_WitnessAstar == StaleOnTop("astar")

\* the minimum, over all walks from s over passable pairs, of the summed
\* resolved costs, for every node (+infinity where no walk exists)
RECURSIVE BellmanFord(_, _, _, _)
BellmanFord(E, ig, d, k) ==
    IF k = 0 THEN d
    ELSE BellmanFord(E, ig,
            [v \in Nodes |->
                MinOf({d[v]} \cup
                      {Plus(d[u], get_best_edge_weight(E, u, v, ig)) : u \in Nodes})],
            k - 1)

MinCost(E, s, ig) ==
    BellmanFord(E, ig, [v \in Nodes |-> IF v = s THEN 0 ELSE Inf], NumNodes)

\* C25: Dijkstra optimality: every node dijkstra_search settles is settled at
\* its minimum cost from start over passable pairs, no earlier settled node has
\* a larger final distance, and on success the total cost returned is the
\* minimum cost from start to end.
C25_DijkstraOptimal ==
    [][/\ DijkstraStep =>
             LET top == HeapMin(queue)
                 best == MinCost(edges, start, ignore_damage)
             IN  top[2] \notin visited =>
                    /\ top[1] = best[top[2]]
                    /\ distances[top[2]] = top[1]
                    /\ \A v \in visited : distances[v] <= top[1]
                    /\ \A v \in visited : distances[v] = best[v]
       /\ DijkstraReturn =>
             (success =>
                 /\ dres'.success
                 /\ dres'.total_dist
                       = MinCost(edges, start, ignore_damage)[end])]_vars

\* C25 witness: the target is reached over two hops at the minimum cost, below
\* the cost of the direct pair
C25_Witness ==
    /\ pc = "done" /\ dres.success
    /\ Len(dres.path) >= 3
    /\ dres.total_dist = MinCost(edges, start, ignore_damage)[end]
    /\ ~IsInf(get_best_edge_weight(edges, start, end, ignore_damage))
    /\ dres.total_dist < get_best_edge_weight(edges, start, end, ignore_damage)

\* the heuristic never exceeds the minimum remaining cost to the target e
Admissible(e) ==
    \A n \in Nodes :
        heuristic(nodes, n, e) <= MinCost(edges, n, ignore_damage)[e]

\* C26 (as stated): with non-negative costs and an admissible heuristic,
\* astar_search with success = true returns the minimum cost from start to end.
C26_AstarOptimalIfAdmissible ==
    (pc = "done" /\ Admissible(end) /\ ares.success) =>
        ares.total_dist = MinCost(edges, start, ignore_damage)[end]

\* the node without parent that the parent pointers lead to from n in at most
\* k steps, None when there is none
RECURSIVE Root(_, _, _)
Root(par, n, k) ==
    IF par[n] = None THEN n
    ELSE IF k = 0 THEN None
    ELSE Root(par, par[n], k - 1)

\* the start node has no parent and every node with a parent leads back to it
ParentsAcyclic ==
    pc \in {"dijkstra", "astar"} =>
        /\ parents[start] = None
        /\ \A n \in Nodes :
              parents[n] # None => Root(parents, n, NumNodes) = start

BeginsWithStart(r) == Len(r.path) >= 1 /\ r.path[1] = start

PathsBeginWithStart ==
    /\ pc \in {"astar", "done"} => BeginsWithStart(dres)
    /\ pc = "done" => BeginsWithStart(ares)

\* C28: termination: each search, once entered, leaves its loop (the frontier
\* is exhausted or the target popped) and returns; the parent pointers never
\* form a cycle and lead back to the start node, whose parent is None; the
\* returned path begins with start.
C28_Termination ==
    /\ [](ParentsAcyclic /\ PathsBeginWithStart)
    /\ (pc \in {"dijkstra", "astar"}) ~> (pc = "done")

\* C28 witness: on a network with the cycle 1 -> 2 -> 1 both searches exhaust
\* the frontier without reaching the target and return a path from start
C28_Witness ==
    /\ pc = "done"
    /\ start = 2 /\ end = 3
    /\ ~dres.success /\ ~ares.success
    /\ dres.visited = {1, 2} /\ ares.visited = {1, 2}
    /\ BeginsWithStart(dres) /\ BeginsWithStart(ares)

\* C21 (as stated): a search with ignore_damage=True run after
\* apply_damage_area returns the success flag and the total cost of the same
\* search on the graph before the damage: success exactly when the target was
\* reachable over the pairs passable before the damage, and from
\* dijkstra_search the minimum cost the graph had before the damage.
C21_GhostSeesUndamagedNetwork ==
    (pc = "done" /\ ignore_damage /\ calls = <<"apply_damage_area">>) =>
        LET reach == end \in Closure({start}, PassablePairs(before, TRUE))
        IN  /\ dres.success = reach
            /\ ares.success = reach
            /\ reach => dres.total_dist = MinCost(before, start, TRUE)[end]

\* C23 (as stated): after "clear damages" has run, every later route
\* computation (run_algorithm, the analysis comparison) treats every edge that
\* was blocked before the clearing as passable at its original cost, until a
\* new damage call blocks that edge again.
C23_ClearedEdgesPassable ==
    pc \in {"dijkstra", "astar"} =>
        \A e \in cleared :
            /\ ~edges[e].blocked
            /\ EdgeCost(edges[e]) = EdgeCost(loaded[e])

====
